---- MODULE Spec2Model ----
(***************************************************************************)
(* CFILE: the binary columnar container of src/writer.py and               *)
(* src/reader.py.  A file is a sequence of bytes (0..255); text is the     *)
(* sequence of its UTF-8 bytes (the model's names and values are ASCII).   *)
(***************************************************************************)
EXTENDS Integers, Sequences, FiniteSets, TLC

(***************************************************************************)
(* Bounds of the model.                                                    *)
(***************************************************************************)
MaxRows == 2          \* rows of a table handed to write_cfile
MaxCsvRows == 2       \* data rows of a CSV file
MaxCsvWidth == 2      \* fields of a CSV data row

(***************************************************************************)
(* Module-level constants of writer.py and reader.py.                      *)
(***************************************************************************)
MAGIC == <<67, 70, 73, 76, 69, 118, 48, 49>>      \* b"CFILEv01"
VERSION == 1
ENDIANNESS == 0
RESERVED == 0
DT_INT32 == 0
DT_FLOAT64 == 1
DT_STRING == 2

\* type names as they appear in a schema
T_INT32 == <<73, 78, 84, 51, 50>>                 \* "INT32"
T_FLOAT64 == <<70, 76, 79, 65, 84, 54, 52>>       \* "FLOAT64"
T_STRING == <<83, 84, 82, 73, 78, 71>>            \* "STRING"

(***************************************************************************)
(* Generic helpers.                                                        *)
(***************************************************************************)
Min(a, b) == IF a < b THEN a ELSE b

RECURSIVE Pow(_, _)
Pow(b, n) == IF n = 0 THEN 1 ELSE b * Pow(b, n - 1)

RECURSIVE Zeros(_)
Zeros(n) == IF n <= 0 THEN <<>> ELSE <<0>> \o Zeros(n - 1)

RECURSIVE Concat(_)
Concat(ss) == IF ss = <<>> THEN <<>> ELSE Head(ss) \o Concat(Tail(ss))

\* Python's b[a:b] for 0 <= a (0-based, end exclusive, clipped to the length)
Slice(s, a, b) == SubSeq(s, a + 1, Min(b, Len(s)))

\* fh.read(n) at position pos: at most n bytes, fewer at the end of the file
FileRead(bytes, pos, n) == Slice(bytes, pos, pos + n)

(***************************************************************************)
(* struct.pack / struct.unpack, little-endian.  A value outside the        *)
(* format's range is struct.error, modelled as the packer's guard.         *)
(***************************************************************************)
pack_u8(v) == <<v>>
pack_u16(v) == <<v % 256, v \div 256>>
pack_u32(v) == <<v % 256, (v \div 256) % 256, (v \div 65536) % 256, v \div 16777216>>
pack_u64(v) == pack_u32(v) \o <<0, 0, 0, 0>>      \* sizes of the model are below 2^31

unpack_u16(b) == b[1] + 256 * b[2]
\* fields of the model's files are below 2^31: byte 4 stays below 128
unpack_u32(b) == b[1] + 256 * b[2] + 65536 * b[3] + 16777216 * b[4]
unpack_u64(b) == unpack_u32(SubSeq(b, 1, 4))

\* struct.pack("<i", v): two's complement, -2^31 <= v < 2^31
pack_i32(v) ==
  IF v >= 0 THEN pack_u32(v)
  ELSE LET t == (v + 2147483647) + 1               \* v + 2^31, in 0 .. 2^31-1
       IN <<t % 256, (t \div 256) % 256, (t \div 65536) % 256, (t \div 16777216) + 128>>

unpack_i32(b) ==
  IF b[4] < 128 THEN unpack_u32(b)
  ELSE (b[1] + 256 * b[2] + 65536 * b[3] + 16777216 * (b[4] - 128) - 2147483647) - 1

(***************************************************************************)
(* Doubles.  A double is its sign, an odd (or zero) mantissa and a binary  *)
(* exponent: value = (-1)^neg * mant * 2^exp.  The model's doubles have    *)
(* mantissas below 2^29, so bytes 0..2 of their encoding are zero.         *)
(***************************************************************************)
RECURSIVE BitLen(_)
BitLen(n) == IF n = 0 THEN 0 ELSE 1 + BitLen(n \div 2)

RECURSIVE Normalize(_, _, _)
Normalize(neg, mant, exp) ==
  IF mant = 0 THEN [neg |-> neg, mant |-> 0, exp |-> 0]
  ELSE IF mant % 2 = 0 THEN Normalize(neg, mant \div 2, exp + 1)
  ELSE [neg |-> neg, mant |-> mant, exp |-> exp]

\* struct.pack("<d", f): sign, 11-bit biased exponent, 52-bit fraction
pack_d(f) ==
  IF f.mant = 0 THEN <<0, 0, 0, 0, 0, 0, 0, IF f.neg THEN 128 ELSE 0>>
  ELSE LET L    == BitLen(f.mant)
           bexp == f.exp + (L - 1) + 1023
           r28  == (f.mant - Pow(2, L - 1)) * Pow(2, 28 - (L - 1))
       IN <<0, 0, 0, r28 % 256, (r28 \div 256) % 256, (r28 \div 65536) % 256,
            (bexp % 16) * 16 + (r28 \div 16777216),
            (IF f.neg THEN 128 ELSE 0) + (bexp \div 16)>>

unpack_d(b) ==
  LET neg  == b[8] >= 128
      bexp == (b[8] % 128) * 16 + (b[7] \div 16)
      r28  == (b[7] % 16) * 16777216 + b[6] * 65536 + b[5] * 256 + b[4]
  IN IF bexp = 0 /\ r28 = 0 THEN [neg |-> neg, mant |-> 0, exp |-> 0]
     ELSE Normalize(neg, 268435456 + r28, bexp - 1023 - 28)

(***************************************************************************)
(* Python's int(str) and float(str) on the literals of the model: an       *)
(* optional sign, digits, an optional fraction and an optional decimal     *)
(* exponent.  The model's literals (7, -0.5, 1e10) are exactly             *)
(* representable as doubles, so no rounding is involved.                   *)
(***************************************************************************)
IsDigit(c) == c >= 48 /\ c <= 57
AllDigits(s) == \A i \in 1..Len(s) : IsDigit(s[i])

RECURSIVE DigitsVal(_)
DigitsVal(s) == IF s = <<>> THEN 0 ELSE 10 * DigitsVal(SubSeq(s, 1, Len(s) - 1)) + (s[Len(s)] - 48)

\* first position of a byte of cs in s, 0 when there is none
IndexOfAny(s, cs) ==
  IF \E i \in 1..Len(s) : s[i] \in cs
  THEN CHOOSE i \in 1..Len(s) : s[i] \in cs /\ \A j \in 1..(i - 1) : s[j] \notin cs
  ELSE 0

HasSign(s) == Len(s) > 0 /\ s[1] \in {43, 45}      \* '+' or '-'
Unsigned(s) == IF HasSign(s) THEN Tail(s) ELSE s
IsNegative(s) == Len(s) > 0 /\ s[1] = 45

\* int(value) succeeds
IsIntLiteral(s) == Len(Unsigned(s)) > 0 /\ AllDigits(Unsigned(s))

\* s split around 1-based position pos (pos = 0: nothing to split on)
SplitAt(s, pos) ==
  [found |-> pos # 0,
   left  |-> IF pos = 0 THEN s ELSE SubSeq(s, 1, pos - 1),
   right |-> IF pos = 0 THEN <<>> ELSE SubSeq(s, pos + 1, Len(s))]
SplitOn(s, cs) == SplitAt(s, IndexOfAny(s, cs))

\* the pieces of a float literal: integer digits, fraction digits, exponent text
PartsOf(m, e) == [ip |-> m.left, fp |-> m.right, hasExp |-> e.found, ep |-> e.right]
PartsAroundExp(e) == PartsOf(SplitOn(e.left, {46}), e)              \* '.'
FloatParts(s) == PartsAroundExp(SplitOn(Unsigned(s), {101, 69}))   \* 'e' or 'E'

ValidParts(p) ==
  /\ AllDigits(p.ip) /\ AllDigits(p.fp)
  /\ Len(p.ip) + Len(p.fp) > 0
  /\ (p.hasExp => (Len(Unsigned(p.ep)) > 0 /\ AllDigits(Unsigned(p.ep))))

\* float(value) succeeds
IsFloatLiteral(s) == ValidParts(FloatParts(s))

\* the decimal exponent of the digits ip fp taken as one integer
ExpOf(p) ==
  (IF ~p.hasExp THEN 0
   ELSE IF IsNegative(p.ep) THEN 0 - DigitsVal(Unsigned(p.ep)) ELSE DigitsVal(Unsigned(p.ep)))
  - Len(p.fp)

\* (-1)^neg * N * 10^k as a double
FloatFromDecimal(neg, N, k) ==
  IF k >= 0 THEN Normalize(neg, N * Pow(5, k), k)
  ELSE Normalize(neg, N \div Pow(5, 0 - k), k)

FloatFromParts(neg, p) == FloatFromDecimal(neg, DigitsVal(p.ip \o p.fp), ExpOf(p))

\* float(value), for a literal float() accepts
FloatOf(s) == FloatFromParts(IsNegative(s), FloatParts(s))

\* struct.pack("<i", ...) accepts int(f): -2^31 <= int(f) < 2^31
FitsInt32(f) ==
  \/ f.mant = 0
  \/ f.exp < 0
  \/ BitLen(f.mant) + f.exp <= 31
  \/ (f.neg /\ f.mant = 1 /\ f.exp = 31)

\* the magnitude of int(f): toward zero
TruncMagnitude(f) == IF f.exp >= 0 THEN f.mant * Pow(2, f.exp) ELSE f.mant \div Pow(2, 0 - f.exp)

\* Python's int(f) for a double f in the int32 range: truncation toward zero
IntOfFloat(f) ==
  IF f.neg /\ f.mant = 1 /\ f.exp = 31 THEN (0 - 2147483647) - 1
  ELSE IF f.neg THEN 0 - TruncMagnitude(f) ELSE TruncMagnitude(f)

(***************************************************************************)
(* zlib.compress / zlib.decompress: the codec is a collaborator; the model *)
(* uses zlib's stored (level 0) stream: header 78 01, one final stored     *)
(* block (01, LEN, ~LEN), the data, and its Adler-32 big-endian.           *)
(***************************************************************************)
\* a = 1 + sum of the bytes, b = sum of the successive values of a, both mod 65521
RECURSIVE AdlerSums(_, _, _)
AdlerSums(data, a, b) ==
  IF data = <<>> THEN <<a, b>>
  ELSE AdlerSums(Tail(data), (a + Head(data)) % 65521, (b + a + Head(data)) % 65521)

Adler32(data) ==
  \* the sums are computed once and laid out big-endian: b high, a low
  CHOOSE out \in { <<p[2] \div 256, p[2] % 256, p[1] \div 256, p[1] % 256>> :
                    p \in {AdlerSums(data, 1, 0)} } : TRUE

zlib_compress(data) ==
  <<120, 1, 1>> \o pack_u16(Len(data)) \o pack_u16(65535 - Len(data)) \o data \o Adler32(data)

\* zlib.decompress(comp): [ok, data]; zlib.error when the stream is damaged
zlib_decompress(comp) ==
  IF Len(comp) < 11 \/ SubSeq(comp, 1, 3) # <<120, 1, 1>>
  THEN [ok |-> FALSE, data |-> <<>>]
  ELSE LET n    == unpack_u16(SubSeq(comp, 4, 5))
           data == SubSeq(comp, 8, 7 + n)
       IN IF /\ unpack_u16(SubSeq(comp, 6, 7)) = 65535 - n
             /\ Len(comp) >= 11 + n
             /\ SubSeq(comp, 8 + n, 11 + n) = Adler32(data)
          THEN [ok |-> TRUE, data |-> data]
          ELSE [ok |-> FALSE, data |-> <<>>]

(***************************************************************************)
(* json.dumps({"columns": schema}, separators=(",", ":")) and json.loads   *)
(* of what it produces.  A schema is a sequence of [name, type] records.   *)
(***************************************************************************)
JSON_OPEN == <<123, 34, 99, 111, 108, 117, 109, 110, 115, 34, 58, 91>>   \* {"columns":[
JSON_NAME == <<123, 34, 110, 97, 109, 101, 34, 58>>                      \* {"name":
JSON_TYPE == <<44, 34, 116, 121, 112, 101, 34, 58>>                      \* ,"type":
JSON_CLOSE == <<93, 125>>                                                \* ]}

RECURSIVE JsonEscape(_)
JsonEscape(s) ==
  IF s = <<>> THEN <<>>
  ELSE (IF Head(s) \in {34, 92} THEN <<92, Head(s)>> ELSE <<Head(s)>>) \o JsonEscape(Tail(s))

JsonString(s) == <<34>> \o JsonEscape(s) \o <<34>>

RECURSIVE JsonEntries(_)
JsonEntries(schema) ==
  IF schema = <<>> THEN <<>>
  ELSE JSON_NAME \o JsonString(Head(schema).name) \o JSON_TYPE \o JsonString(Head(schema).type)
       \o <<125>> \o (IF Len(schema) > 1 THEN <<44>> ELSE <<>>) \o JsonEntries(Tail(schema))

json_dumps_schema(schema) == JSON_OPEN \o JsonEntries(schema) \o JSON_CLOSE

HasPrefixAt(b, pos, lit) == Slice(b, pos, pos + Len(lit)) = lit

\* a JSON string starting at 0-based pos (after its opening quote has been seen)
RECURSIVE JsonScanString(_, _, _)
JsonScanString(b, pos, acc) ==
  IF pos >= Len(b) THEN [ok |-> FALSE, s |-> <<>>, next |-> pos]
  ELSE IF b[pos + 1] = 34 THEN [ok |-> TRUE, s |-> acc, next |-> pos + 1]
  ELSE IF b[pos + 1] = 92
       THEN (IF pos + 1 >= Len(b) THEN [ok |-> FALSE, s |-> <<>>, next |-> pos]
             ELSE JsonScanString(b, pos + 2, Append(acc, b[pos + 2])))
  ELSE JsonScanString(b, pos + 1, Append(acc, b[pos + 1]))

JsonParseString(b, pos) ==
  IF pos < Len(b) /\ b[pos + 1] = 34 THEN JsonScanString(b, pos + 1, <<>>)
  ELSE [ok |-> FALSE, s |-> <<>>, next |-> pos]

RECURSIVE JsonParseEntries(_, _, _)
JsonParseEntries(b, pos, acc) ==
  IF HasPrefixAt(b, pos, JSON_CLOSE) /\ pos + Len(JSON_CLOSE) = Len(b)
  THEN [ok |-> TRUE, columns |-> acc]
  ELSE IF ~HasPrefixAt(b, pos, JSON_NAME) THEN [ok |-> FALSE, columns |-> <<>>]
  ELSE LET n == JsonParseString(b, pos + Len(JSON_NAME))
       IN IF ~n.ok \/ ~HasPrefixAt(b, n.next, JSON_TYPE) THEN [ok |-> FALSE, columns |-> <<>>]
          ELSE LET t == JsonParseString(b, n.next + Len(JSON_TYPE))
                   e == Append(acc, [name |-> n.s, type |-> t.s])
               IN IF ~t.ok \/ ~HasPrefixAt(b, t.next, <<125>>) THEN [ok |-> FALSE, columns |-> <<>>]
                  ELSE IF HasPrefixAt(b, t.next + 1, <<44>>)
                       THEN JsonParseEntries(b, t.next + 2, e)
                       ELSE JsonParseEntries(b, t.next + 1, e)

\* json.loads(schema_json).get("columns", [])
json_loads_schema(b) ==
  IF HasPrefixAt(b, 0, JSON_OPEN) THEN JsonParseEntries(b, Len(JSON_OPEN), <<>>)
  ELSE [ok |-> FALSE, columns |-> <<>>]

(***************************************************************************)
(* writer.py                                                               *)
(***************************************************************************)
pad_magic(magic_bytes) == SubSeq(magic_bytes \o Zeros(8 - Len(magic_bytes)), 1, 8)

\* the outcome of an operation: err = "" when it succeeded
Ok(bytes) == [err |-> "", bytes |-> bytes]
Fail(kind) == [err |-> kind, bytes |-> <<>>]


\* PackInt32 rounding toward minus infinity instead of toward zero
PackInt32Floor(f) ==
  IF ~FitsInt32(f) THEN Fail("struct.error")
  ELSE Ok(pack_i32(IF f.neg /\ f.exp < 0 THEN 0 - (TruncMagnitude(f) + 1) ELSE IntOfFloat(f)))

\* struct.pack("<i", int(f)): struct.error when int(f) is out of range
PackInt32(f) ==
  IF ~FitsInt32(f) THEN Fail("struct.error")
  ELSE Ok(pack_i32(IntOfFloat(f)))

\* one INT32 value: "" is 0, otherwise int(float(v)) packed as "<i"
EncodeInt32(v) ==
  IF v = <<>> THEN Ok(pack_i32(0))
  ELSE IF ~IsFloatLiteral(v) THEN Fail("MalformedValue")        \* float(v): ValueError
  ELSE PackInt32(FloatOf(v))

\* one FLOAT64 value: "" is 0.0, otherwise float(v) packed as "<d"
EncodeFloat64(v) ==
  IF v = <<>> THEN Ok(pack_d([neg |-> FALSE, mant |-> 0, exp |-> 0]))
  ELSE IF ~IsFloatLiteral(v) THEN Fail("MalformedValue")
  ELSE Ok(pack_d(FloatOf(v)))

\* the first position whose outcome is an error, 0 when there is none
FirstError(outcomes) ==
  IF \E i \in 1..Len(outcomes) : outcomes[i].err # ""
  THEN CHOOSE i \in 1..Len(outcomes) :
         outcomes[i].err # "" /\ \A j \in 1..(i - 1) : outcomes[j].err = ""
  ELSE 0

\* the loop over values: the first value that fails raises, otherwise the
\* encodings follow one another
JoinEncoded(encs) ==
  IF FirstError(encs) # 0 THEN Fail(encs[FirstError(encs)].err)
  ELSE Ok(Concat([i \in 1..Len(encs) |-> encs[i].bytes]))

EncodeEach(col_type, values) ==
  JoinEncoded([i \in 1..Len(values) |->
                 IF col_type = T_INT32 THEN EncodeInt32(values[i]) ELSE EncodeFloat64(values[i])])

\* offsets = [0, len(v1), len(v1)+len(v2), ...]: one more than there are values
RECURSIVE StringOffsets(_, _)
StringOffsets(values, cur) ==
  IF values = <<>> THEN <<cur>>
  ELSE <<cur>> \o StringOffsets(Tail(values), cur + Len(Head(values)))

RECURSIVE PackAllU32(_)
PackAllU32(os) == IF os = <<>> THEN <<>> ELSE pack_u32(Head(os)) \o PackAllU32(Tail(os))

build_uncompressed_block(col_type, values) ==
  IF col_type = T_INT32 \/ col_type = T_FLOAT64 THEN EncodeEach(col_type, values)
  ELSE IF col_type = T_STRING THEN Ok(PackAllU32(StringOffsets(values, 0)) \o Concat(values))
  ELSE Fail("UnknownType")

\* {"INT32":0,"FLOAT64":1,"STRING":2}[col_meta["type"]]
KnownType(type) == type \in {T_INT32, T_FLOAT64, T_STRING}
DtypeOf(type) == IF type = T_INT32 THEN DT_INT32 ELSE IF type = T_FLOAT64 THEN DT_FLOAT64 ELSE DT_STRING

\* the loop over zip(schema, columns): encode, then compress, column by column;
\* the first column that fails to encode raises
EncodedBlocks(blocks) ==
  IF FirstError(blocks) # 0
  THEN [err |-> blocks[FirstError(blocks)].err, unc |-> <<>>, comp |-> <<>>]
  ELSE [err |-> "",
        unc |-> [i \in 1..Len(blocks) |-> blocks[i].bytes],
        comp |-> [i \in 1..Len(blocks) |-> zlib_compress(blocks[i].bytes)]]

EncodeColumns(schema, columns) ==
  EncodedBlocks([i \in 1..Min(Len(schema), Len(columns)) |->
                   build_uncompressed_block(schema[i].type, columns[i])])

HeaderPrefix(schema_json, num_rows, num_columns) ==
  pad_magic(MAGIC) \o pack_u8(VERSION) \o pack_u8(ENDIANNESS) \o pack_u16(RESERVED)
  \o pack_u32(Len(schema_json)) \o schema_json \o pack_u64(num_rows) \o pack_u32(num_columns)


\* DirEntry storing the uncompressed size where the value count belongs
DirEntrySizeAsCount(col_meta, offset, csize, usize, num_rows) ==
  pack_u16(Len(col_meta.name)) \o col_meta.name \o pack_u8(DtypeOf(col_meta.type))
  \o pack_u64(offset) \o pack_u64(csize) \o pack_u64(usize) \o pack_u64(usize)

DirEntry(col_meta, offset, csize, usize, num_rows) ==
  pack_u16(Len(col_meta.name)) \o col_meta.name \o pack_u8(DtypeOf(col_meta.type))
  \o pack_u64(offset) \o pack_u64(csize) \o pack_u64(usize) \o pack_u64(num_rows)

\* the first pass: every entry with zero offset and sizes, to learn the header's length
RECURSIVE PlaceholderDirectory(_, _)
PlaceholderDirectory(schema, num_rows) ==
  IF schema = <<>> THEN <<>>
  ELSE DirEntry(Head(schema), 0, 0, 0, num_rows) \o PlaceholderDirectory(Tail(schema), num_rows)

\* the second pass: entry i carries offsets[i] and the sizes of block i
RECURSIVE Directory(_, _, _, _, _)
Directory(schema, offsets, comps, uncs, num_rows) ==
  IF schema = <<>> THEN <<>>
  ELSE DirEntry(Head(schema), Head(offsets), Len(Head(comps)), Len(Head(uncs)), num_rows)
       \o Directory(Tail(schema), Tail(offsets), Tail(comps), Tail(uncs), num_rows)


\* HeaderPad without the outer "% 8": a full 8 bytes of padding on an aligned header
HeaderPadAlways(header_len) == 8 - (header_len % 8)

\* pad = (8 - (header_len % 8)) % 8
HeaderPad(header_len) == (8 - (header_len % 8)) % 8

\* if cur % 8 != 0: cur += 8 - (cur % 8)
AlignUp(cur) == IF cur % 8 # 0 THEN cur + (8 - (cur % 8)) ELSE cur


\* PlanOffsets without the alignment step
RECURSIVE PlanOffsetsUnaligned(_, _)
PlanOffsetsUnaligned(cur, comps) ==
  IF comps = <<>> THEN <<>>
  ELSE <<cur>> \o PlanOffsetsUnaligned(cur + Len(Head(comps)), Tail(comps))

\* offsets: each block starts where the previous one ends, aligned up
RECURSIVE PlanOffsets(_, _)
PlanOffsets(cur, comps) ==
  IF comps = <<>> THEN <<>>
  ELSE <<cur>> \o PlanOffsets(AlignUp(cur + Len(Head(comps))), Tail(comps))

\* the blocks as written from file position pos, each followed by its zero padding
RECURSIVE EmitBlocks(_, _)
EmitBlocks(pos, comps) ==
  IF comps = <<>> THEN <<>>
  ELSE LET curpos == pos + Len(Head(comps))
           padb   == (8 - (curpos % 8)) % 8
       IN Head(comps) \o Zeros(padb) \o EmitBlocks(curpos + padb, Tail(comps))

\* a failure that leaves the destination opened for writing, and so emptied
RaisedTruncating(kind) == [err |-> kind, opened |-> TRUE, bytes |-> <<>>]

\* a failure raised before out_path.open("wb"): the destination is not touched
RaisedBeforeOpen(kind) == [err |-> kind, opened |-> FALSE, bytes |-> <<>>]
\* a failure raised inside the with block before fh.write(h): the destination is empty
RaisedAfterOpen(kind) == [err |-> kind, opened |-> TRUE, bytes |-> <<>>]

\* the with block: the directory with the planned offsets, the header padding,
\* then the blocks; offsets[i] raises when the schema is wider than the columns
Serialize(schema, num_rows, enc, prefix, pad, offsets) ==
  IF Len(schema) > Len(enc.comp) THEN RaisedAfterOpen("IndexError")
  ELSE [err |-> "", opened |-> TRUE,
        bytes |-> prefix \o Directory(schema, offsets, enc.comp, enc.unc, num_rows)
                  \o Zeros(pad)
                  \o EmitBlocks(Len(prefix \o PlaceholderDirectory(schema, num_rows)) + pad,
                                enc.comp)]

\* layout planning: the padded header length is where the first block starts
PlanLayout(schema, num_rows, enc, prefix, header_len) ==
  Serialize(schema, num_rows, enc, prefix, HeaderPad(header_len),
            PlanOffsets(header_len + HeaderPad(header_len), enc.comp))

\* the first header pass, with zero offsets and sizes, gives header_len
WriteEncoded(schema, num_rows, enc, prefix) ==
  IF enc.err # "" THEN RaisedBeforeOpen(enc.err)
  ELSE IF \E i \in 1..Len(schema) : ~KnownType(schema[i].type)
       THEN RaisedBeforeOpen("KeyError")
  ELSE PlanLayout(schema, num_rows, enc, prefix,
                  Len(prefix \o PlaceholderDirectory(schema, num_rows)))

\* write_cfile(out_path, schema, header_names, columns): what it raises, whether it
\* opened (and so truncated) the destination, and the bytes it wrote
write_cfile(schema, columns) ==
  IF columns = <<>> THEN RaisedBeforeOpen("IndexError")              \* columns[0]
  ELSE WriteEncoded(schema, Len(columns[1]), EncodeColumns(schema, columns),
                    HeaderPrefix(json_dumps_schema(schema), Len(columns[1]), Len(schema)))

(***************************************************************************)
(* writer.py, CSV side.  A CSV file is the rows csv.reader yields: a       *)
(* sequence of rows, each a sequence of fields, the first the header.      *)
(***************************************************************************)
infer_type(value) ==
  IF value = <<>> THEN DT_STRING
  ELSE IF IsIntLiteral(value) THEN DT_INT32
  ELSE IF IsFloatLiteral(value) THEN DT_FLOAT64
  ELSE DT_STRING

TypeName(dtype) == IF dtype = DT_INT32 THEN T_INT32 ELSE IF dtype = DT_FLOAT64 THEN T_FLOAT64 ELSE T_STRING

\* zip(header, sample_row): as many pairs as the shorter of the two
infer_schema_from_csv(csv) ==
  LET header == csv[1]
  IN IF Len(csv) < 2 THEN [i \in 1..Len(header) |-> [name |-> header[i], type |-> T_STRING]]
     ELSE LET sample_row == csv[2]
          IN [i \in 1..Min(Len(header), Len(sample_row)) |->
                [name |-> header[i], type |-> TypeName(infer_type(sample_row[i]))]]

\* row = list(row) + [""] * (len(header) - len(row)); then row[:len(header)]
RECURSIVE Blanks(_)
Blanks(n) == IF n <= 0 THEN <<>> ELSE << <<>> >> \o Blanks(n - 1)
PadRow(row, width) == SubSeq(row \o Blanks(width - Len(row)), 1, width)

read_csv_columns(csv) ==
  LET header == csv[1]
  IN [i \in 1..Len(header) |-> [r \in 1..(Len(csv) - 1) |-> PadRow(csv[r + 1], Len(header))[i]]]

(***************************************************************************)
(* reader.py.  Decoded values: an int, a double or text, in one record     *)
(* shape so that values of different columns compare.                      *)
(***************************************************************************)
IntV(n) == [k |-> "int", n |-> n, f |-> [neg |-> FALSE, mant |-> 0, exp |-> 0], s |-> <<>>]
FloatV(f) == [k |-> "float", n |-> 0, f |-> f, s |-> <<>>]
StrV(s) == [k |-> "str", n |-> 0, f |-> [neg |-> FALSE, mant |-> 0, exp |-> 0], s |-> s]

ColumnMeta(name, dtype, block_offset, compressed_size, uncompressed_size, num_values) ==
  [name |-> name, dtype |-> dtype, block_offset |-> block_offset,
   compressed_size |-> compressed_size, uncompressed_size |-> uncompressed_size,
   num_values |-> num_values]

\* what the constructor leaves: status "open", or the error it raised (no reader then)
ReaderState(status, schema, num_rows, num_columns, columns) ==
  [status |-> status, schema |-> schema, num_rows |-> num_rows,
   num_columns |-> num_columns, columns |-> columns]
NoReader(status) == ReaderState(status, <<>>, 0, 0, <<>>)

\* magic.rstrip(b"\x00")
RECURSIVE RStripZeros(_)
RStripZeros(s) ==
  IF s # <<>> /\ s[Len(s)] = 0 THEN RStripZeros(SubSeq(s, 1, Len(s) - 1)) ELSE s

DirFail(kind) == [err |-> kind, columns |-> <<>>, end |-> 0]

\* the per-column directory loop, from file position pos, n entries to go.  Only
\* the name length is checked for a short read; struct.unpack of a short dtype or
\* 8-byte field raises struct.error.
RECURSIVE ParseDirectory(_, _, _, _)
RECURSIVE ParseEntryName(_, _, _, _, _)
RECURSIVE ParseEntryFields(_, _, _, _, _)

\* after the name (which may be short): dtype and four 8-byte fields from position p
ParseEntryFields(b, n, acc, name, p) ==
  IF Len(FileRead(b, p, 1)) < 1 \/ Len(FileRead(b, p + 1, 8)) < 8 \/ Len(FileRead(b, p + 9, 8)) < 8
     \/ Len(FileRead(b, p + 17, 8)) < 8 \/ Len(FileRead(b, p + 25, 8)) < 8
  THEN DirFail("struct.error")
  ELSE ParseDirectory(b, p + 33, n - 1,
         Append(acc, ColumnMeta(name, FileRead(b, p, 1)[1],
                                unpack_u64(FileRead(b, p + 1, 8)), unpack_u64(FileRead(b, p + 9, 8)),
                                unpack_u64(FileRead(b, p + 17, 8)), unpack_u64(FileRead(b, p + 25, 8)))))

\* name = fh.read(name_len): the position moves by the bytes actually read
ParseEntryName(b, pos, n, acc, name) == ParseEntryFields(b, n, acc, name, pos + Len(name))

ParseDirectory(b, pos, n, acc) ==
  IF n = 0 THEN [err |-> "", columns |-> acc, end |-> pos]
  ELSE IF Len(FileRead(b, pos, 2)) < 2 THEN DirFail("TruncatedFile")         \* "truncated dir"
  ELSE ParseEntryName(b, pos + 2, n, acc, FileRead(b, pos + 2, unpack_u16(FileRead(b, pos, 2))))

HeaderFail(kind) ==
  [err |-> kind, schema |-> <<>>, num_rows |-> 0, num_columns |-> 0, columns |-> <<>>, end |-> 0]

ParsedHeader(schema, num_rows, num_columns, dir) ==
  IF dir.err # "" THEN HeaderFail(dir.err)
  ELSE [err |-> "", schema |-> schema, num_rows |-> num_rows, num_columns |-> num_columns,
        columns |-> dir.columns, end |-> dir.end]

\* the global metadata gm (num_rows, num_columns), then the directory
ParseGlobal(b, pos, schema_obj, gm) ==
  IF ~schema_obj.ok THEN HeaderFail("JSONDecodeError")
  ELSE IF Len(gm) < 12 THEN HeaderFail("TruncatedFile")           \* "truncated global metadata"
  ELSE ParsedHeader(schema_obj.columns, unpack_u64(SubSeq(gm, 1, 8)), unpack_u32(SubSeq(gm, 9, 12)),
                    ParseDirectory(b, pos + 12, unpack_u32(SubSeq(gm, 9, 12)), <<>>))

\* the schema blob of schema_len bytes at position 16
ParseSchema(b, schema_len, schema_json) ==
  IF Len(schema_json) < schema_len THEN HeaderFail("TruncatedFile")   \* "truncated schema json"
  ELSE ParseGlobal(b, 16 + schema_len, json_loads_schema(schema_json),
                   FileRead(b, 16 + schema_len, 12))

\* the fixed prefix, then schema_len from rest = fh.read(4)
ParsePrefix(b, prefix, rest) ==
  IF Len(prefix) < 12 THEN HeaderFail("TruncatedFile")                \* "file too small"
  ELSE IF RStripZeros(SubSeq(prefix, 1, 8)) # MAGIC THEN HeaderFail("BadMagic")
  ELSE IF prefix[9] # 1 THEN HeaderFail("UnsupportedVersion")
  ELSE IF prefix[10] # 0 THEN HeaderFail("UnsupportedEndianness")
  ELSE IF Len(rest) < 4 THEN HeaderFail("TruncatedFile")              \* "truncated schema length"
  ELSE ParseSchema(b, unpack_u32(rest), FileRead(b, 16, unpack_u32(rest)))

\* _parse_header on the bytes of the file: the error raised, or the parsed fields
\* and the position after the directory
ParseHeader(b) == ParsePrefix(b, FileRead(b, 0, 12), FileRead(b, 12, 4))

\* CFileReader(path)
ReaderOf(h) ==
  IF h.err # "" THEN NoReader(h.err)
  ELSE ReaderState("open", h.schema, h.num_rows, h.num_columns, h.columns)
OpenReader(b) == ReaderOf(ParseHeader(b))

\* zlib.decompress, then the size check
Decompressed(col, z) ==
  IF ~z.ok THEN Fail("zlib.error")
  ELSE IF Len(z.data) # col.uncompressed_size THEN Fail("SizeMismatch")
  ELSE Ok(z.data)

\* the block handed to zlib whatever its length
UncheckedBlock(col, comp) == Decompressed(col, zlib_decompress(comp))

\* comp = fh.read(col.compressed_size) after fh.seek(col.block_offset)
CheckedBlock(col, comp) ==
  IF Len(comp) # col.compressed_size THEN Fail("TruncatedBlock")
  ELSE Decompressed(col, zlib_decompress(comp))

_read_column_uncompressed(b, col) ==
  CheckedBlock(col, FileRead(b, col.block_offset, col.compressed_size))

ValsOk(vals) == [err |-> "", vals |-> vals]
ValsFail(kind) == [err |-> kind, vals |-> <<>>]

\* the dtype branches of read_column; unpack_from past the end of data is struct.error
DecodeColumn(meta, data) ==
  LET count == meta.num_values
  IN IF meta.dtype = DT_INT32 THEN
       IF count * 4 > Len(data) THEN ValsFail("struct.error")
       ELSE ValsOk([i \in 1..count |-> IntV(unpack_i32(SubSeq(data, 4 * i - 3, 4 * i)))])
     ELSE IF meta.dtype = DT_FLOAT64 THEN
       IF count * 8 > Len(data) THEN ValsFail("struct.error")
       ELSE ValsOk([i \in 1..count |-> FloatV(unpack_d(SubSeq(data, 8 * i - 7, 8 * i)))])
     ELSE IF meta.dtype = DT_STRING THEN
       IF (count + 1) * 4 > Len(data) THEN ValsFail("struct.error")
       ELSE LET offs  == [i \in 1..(count + 1) |-> unpack_u32(SubSeq(data, 4 * i - 3, 4 * i))]
                base  == 4 * (count + 1)
                sblob == SubSeq(data, base + 1, Len(data))
            IN ValsOk([i \in 1..count |-> StrV(Slice(sblob, offs[i], offs[i + 1]))])
     ELSE ValsFail("UnknownDtype")

\* next((c for c in self.columns if c.name == name), None): the first match
FindColumn(columns, name) ==
  IF \E i \in 1..Len(columns) : columns[i].name = name
  THEN CHOOSE i \in 1..Len(columns) :
         columns[i].name = name /\ \A j \in 1..(i - 1) : columns[j].name # name
  ELSE 0

DecodedOrError(meta, data) ==
  IF data.err # "" THEN ValsFail(data.err) ELSE DecodeColumn(meta, data.bytes)

ReadFound(rd, b, i) ==
  IF i = 0 THEN ValsFail("NoSuchColumn")
  ELSE DecodedOrError(rd.columns[i], _read_column_uncompressed(b, rd.columns[i]))

read_column(rd, b, name) == ReadFound(rd, b, FindColumn(rd.columns, name))

\* read_columns(names): a dict name -> values, or the first error raised
ColumnsDict(names, results) ==
  IF FirstError(results) # 0 THEN [err |-> results[FirstError(results)].err, cols |-> <<>>]
  ELSE [err |-> "",
        cols |-> [n \in {names[i] : i \in 1..Len(names)} |->
                    results[CHOOSE i \in 1..Len(names) : names[i] = n].vals]]

read_columns(rd, b, names) ==
  ColumnsDict(names, [i \in 1..Len(names) |-> read_column(rd, b, names[i])])

\* col_names = [c.name for c in self.columns]
ColNames(rd) == [i \in 1..Len(rd.columns) |-> rd.columns[i].name]

\* the last position of name n among col_names
LastIndex(col_names, n) ==
  CHOOSE i \in 1..Len(col_names) :
    col_names[i] = n /\ \A j \in (i + 1)..Len(col_names) : col_names[j] # n

\* the rows of read_all from the columns' read results: a later column of the same
\* name overwrites an earlier one in the row; cvals[i] past the end is IndexError
RowsOf(num_rows, col_names, col_data) ==
  IF FirstError(col_data) # 0 THEN [err |-> col_data[FirstError(col_data)].err, rows |-> <<>>]
  ELSE IF num_rows > 0 /\ \E i \in 1..Len(col_names) : Len(col_data[i].vals) < num_rows
       THEN [err |-> "IndexError", rows |-> <<>>]
  ELSE [err |-> "",
        rows |-> [r \in 1..num_rows |->
                    [n \in {col_names[i] : i \in 1..Len(col_names)} |->
                       col_data[LastIndex(col_names, n)].vals[r]]]]

\* read_all taking each column by its position in the directory, not by its name
read_all_by_position(rd, b) ==
  RowsOf(rd.num_rows, ColNames(rd),
         [i \in 1..Len(rd.columns) |-> ReadFound(rd, b, i)])

\* read_all(): a list of dicts name -> value
read_all(rd, b) ==
  RowsOf(rd.num_rows, ColNames(rd),
         [i \in 1..Len(rd.columns) |-> read_column(rd, b, rd.columns[i].name)])

(***************************************************************************)
(* The inputs of the model: column names, field values, schemas, tables.   *)
(***************************************************************************)
N_id == <<105, 100>>                 \* "id"
N_score == <<115, 99, 111, 114, 101>>   \* "score"
N_name == <<110, 97, 109, 101>>      \* "name"
N_absent == <<122>>                  \* "z", a name no schema holds

V_empty == <<>>                      \* ""
V_7 == <<55>>                        \* "7"
V_neg_half == <<45, 48, 46, 53>>     \* "-0.5"
V_ab == <<97, 98>>                   \* "ab"
V_1e10 == <<49, 101, 49, 48>>        \* "1e10"

Values == {V_empty, V_7, V_neg_half, V_ab, V_1e10}

T_BOOL == <<66, 79, 79, 76>>         \* "BOOL": not a type of the format

Col(name, type) == [name |-> name, type |-> type]

WideValues == {V_empty, V_neg_half, V_ab}       \* the fields of two-column tables

Schemas1 ==
  { <<Col(N_id, T_INT32)>>, <<Col(N_score, T_FLOAT64)>>, <<Col(N_name, T_STRING)>> }

Schemas2 ==
  { <<Col(N_id, T_INT32), Col(N_name, T_STRING)>>,
    <<Col(N_score, T_FLOAT64), Col(N_id, T_INT32)>>,
    <<Col(N_id, T_INT32), Col(N_id, T_STRING)>> }

\* every table of width w and up to maxRows rows over vals, column by column
ColumnsOf(w, maxRows, vals) ==
  UNION { [1..w -> [1..n -> vals]] : n \in 0..maxRows }

TablesOver(schemas, maxRows, vals) ==
  UNION { { [schema |-> sc, columns |-> cs] : cs \in ColumnsOf(Len(sc), maxRows, vals) } :
          sc \in schemas }

Tables == TablesOver(Schemas1, MaxRows, Values) \cup TablesOver(Schemas2, MaxRows, WideValues)

\* the names a caller asks for: the directory's own, and one that is absent
Reverse(s) == [i \in 1..Len(s) |-> s[Len(s) + 1 - i]]
AskedNames(rd) == {rd.columns[i].name : i \in 1..Len(rd.columns)} \cup {N_absent}
AskedLists(rd) == {ColNames(rd), Reverse(ColNames(rd)) \o <<N_absent>>}

(***************************************************************************)
(* State.                                                                  *)
(***************************************************************************)
VARIABLES
  csv,       \* the CSV source: the rows csv.reader yields (<<>> when there is none)
  stage,     \* where main() is: "source", "schema" (inferred), "columns" (table ready)
  schema,    \* the schema handed to write_cfile
  columns,   \* the columns handed to write_cfile
  disk,      \* the destination file: whether it exists, and its bytes
  wres,      \* the last write_cfile call: "idle", "ok" or the error it raised
  damage,    \* what was done to the file after it was written
  reader,    \* the CFileReader: "closed", "open", or the error its constructor raised
  colRes,    \* the last read_column call
  colsRes,   \* the last read_columns call
  allRes     \* the last read_all call

vars == <<csv, stage, schema, columns, disk, wres, damage, reader, colRes, colsRes, allRes>>

NoFile == [exists |-> FALSE, bytes |-> <<>>]
NoDamage == [kind |-> "none", at |-> 0]
NoColRes == [done |-> FALSE, name |-> <<>>, err |-> "", vals |-> <<>>]
NoColsRes == [done |-> FALSE, names |-> <<>>, err |-> "", cols |-> <<>>]
NoAllRes == [done |-> FALSE, err |-> "", rows |-> <<>>]

InitWith(c, sc, cs, d) ==
  /\ csv = c /\ stage = (IF c = <<>> THEN "columns" ELSE "source") /\ schema = sc /\ columns = cs /\ disk = d
  /\ wres = "idle" /\ damage = NoDamage /\ reader = NoReader("closed")
  /\ colRes = NoColRes /\ colsRes = NoColsRes /\ allRes = NoAllRes

(***************************************************************************)
(* Actions.                                                                *)
(***************************************************************************)
\* write_cfile(out_path, schema, header_names, columns)
WriteCFile ==
  /\ stage = "columns"
  /\ wres = "idle"
  /\ \E w \in {write_cfile(schema, columns)} :
        /\ wres' = IF w.err = "" THEN "ok" ELSE w.err
        /\ disk' = IF w.opened THEN [exists |-> TRUE, bytes |-> w.bytes] ELSE disk
  /\ UNCHANGED <<csv, stage, schema, columns, damage, reader, colRes, colsRes, allRes>>

\* CFileReader(path) on the file as it is now
Open ==
  /\ disk.exists
  /\ reader.status = "closed"
  /\ reader' = OpenReader(disk.bytes)
  /\ UNCHANGED <<csv, stage, schema, columns, disk, wres, damage, colRes, colsRes, allRes>>

ReadColumn(name) ==
  /\ reader.status = "open"
  /\ \E r \in {read_column(reader, disk.bytes, name)} :
        colRes' = [done |-> TRUE, name |-> name, err |-> r.err, vals |-> r.vals]
  /\ UNCHANGED <<csv, stage, schema, columns, disk, wres, damage, reader, colsRes, allRes>>

ReadColumns(names) ==
  /\ reader.status = "open"
  /\ \E r \in {read_columns(reader, disk.bytes, names)} :
        colsRes' = [done |-> TRUE, names |-> names, err |-> r.err, cols |-> r.cols]
  /\ UNCHANGED <<csv, stage, schema, columns, disk, wres, damage, reader, colRes, allRes>>

ReadAll ==
  /\ reader.status = "open"
  /\ \E r \in {read_all(reader, disk.bytes)} :
        allRes' = [done |-> TRUE, err |-> r.err, rows |-> r.rows]
  /\ UNCHANGED <<csv, stage, schema, columns, disk, wres, damage, reader, colRes, colsRes>>

(***************************************************************************)
(* Write, open, read: a table is written once and read back.               *)
(***************************************************************************)
Init == \E t \in Tables : InitWith(<<>>, t.schema, t.columns, NoFile)

Next ==
  \/ WriteCFile
  \/ Open
  \/ \E name \in AskedNames(reader) : ReadColumn(name)
  \/ \E names \in AskedLists(reader) : ReadColumns(names)
  \/ ReadAll

Spec == Init /\ [][Next]_vars

(***************************************************************************)
(* A written file is damaged, then opened and read (SpecDamage).  The      *)
(* damage is done to the file from outside, before a reader is opened.     *)
(***************************************************************************)
DamageValues == {V_7, V_ab}
DamageSchemas ==
  { <<Col(N_name, T_STRING)>>, <<Col(N_id, T_INT32), Col(N_name, T_STRING)>> }
DamageTables == TablesOver(DamageSchemas, MaxRows, DamageValues)

Damageable == wres = "ok" /\ damage.kind = "none" /\ reader.status = "closed"

\* b with the bytes at 0-based position pos replaced by patch
Overwrite(b, pos, patch) ==
  [k \in 1..Len(b) |-> IF k > pos /\ k <= pos + Len(patch) THEN patch[k - pos] ELSE b[k]]

\* the 0-based position of num_rows, and of directory entry i, in a written file
NumRowsPos(b) == 16 + unpack_u32(SubSeq(b, 13, 16))
RECURSIVE EntryPos(_, _, _)
EntryPos(b, cs, i) ==
  IF i = 1 THEN NumRowsPos(b) + 12 ELSE EntryPos(b, cs, i - 1) + 35 + Len(cs[i - 1].name)

\* the file loses everything from byte n on
Truncate(n) ==
  /\ Damageable
  /\ n < Len(disk.bytes)
  /\ disk' = [disk EXCEPT !.bytes = SubSeq(disk.bytes, 1, n)]
  /\ damage' = [kind |-> "truncate", at |-> n]
  /\ UNCHANGED <<csv, stage, schema, columns, wres, reader, colRes, colsRes, allRes>>

\* byte i of the magic becomes v
CorruptMagic(i, v) ==
  /\ Damageable
  /\ disk.bytes[i] # v
  /\ disk' = [disk EXCEPT !.bytes = Overwrite(disk.bytes, i - 1, <<v>>)]
  /\ damage' = [kind |-> "magic", at |-> i]
  /\ UNCHANGED <<csv, stage, schema, columns, wres, reader, colRes, colsRes, allRes>>

\* the global num_rows becomes n
PatchNumRows(n) ==
  /\ Damageable
  /\ n # ParseHeader(disk.bytes).num_rows
  /\ disk' = [disk EXCEPT !.bytes = Overwrite(disk.bytes, NumRowsPos(disk.bytes), pack_u64(n))]
  /\ damage' = [kind |-> "num_rows", at |-> n]
  /\ UNCHANGED <<csv, stage, schema, columns, wres, reader, colRes, colsRes, allRes>>

\* the num_values of directory entry i becomes n
PatchNumValues(i, n) ==
  /\ Damageable
  /\ \E cs \in {ParseHeader(disk.bytes).columns} :
        /\ i <= Len(cs)
        /\ n # cs[i].num_values
        /\ disk' = [disk EXCEPT !.bytes =
                      Overwrite(disk.bytes, EntryPos(disk.bytes, cs, i) + 27 + Len(cs[i].name),
                                pack_u64(n))]
  /\ damage' = [kind |-> "num_values", at |-> i]
  /\ UNCHANGED <<csv, stage, schema, columns, wres, reader, colRes, colsRes, allRes>>

InitDamage == \E t \in DamageTables : InitWith(<<>>, t.schema, t.columns, NoFile)

NextDamage ==
  \/ WriteCFile
  \/ \E n \in 0..Len(disk.bytes) : Truncate(n)
  \/ \E i \in 1..8, v \in {0, 88} : CorruptMagic(i, v)
  \/ \E n \in 0..(MaxRows + 1) : PatchNumRows(n)
  \/ \E i \in 1..2, n \in 0..(MaxRows + 1) : PatchNumValues(i, n)
  \/ Open
  \/ \E name \in AskedNames(reader) : ReadColumn(name)
  \/ ReadAll

SpecDamage == InitDamage /\ [][NextDamage]_vars

(***************************************************************************)
(* A write over a destination that may already exist (SpecAbort).  The     *)
(* schema may name a type the format does not have, and schema and columns *)
(* may differ in width.                                                    *)
(***************************************************************************)
AbortValues == {V_7, V_ab, V_1e10}
AbortSchemas ==
  { <<Col(N_id, T_INT32)>>, <<Col(N_score, T_FLOAT64)>>, <<Col(N_name, T_BOOL)>>,
    <<Col(N_name, T_STRING), Col(N_id, T_INT32)>> }
AbortTables ==
  { [schema |-> sc, columns |-> cs] :
      sc \in AbortSchemas, cs \in UNION { ColumnsOf(w, MaxRows, AbortValues) : w \in 0..2 } }

\* an earlier file at the destination
OldFile == [exists |-> TRUE, bytes |-> write_cfile(<<Col(N_id, T_INT32)>>, << <<V_7>> >>).bytes]

InitAbort == \E t \in AbortTables, d \in {NoFile, OldFile} : InitWith(<<>>, t.schema, t.columns, d)

NextAbort ==
  \/ WriteCFile
  \/ Open
  \/ ReadAll

SpecAbort == InitAbort /\ [][NextAbort]_vars

(***************************************************************************)
(* main(): CSV -> schema -> columns -> file (SpecInfer).                   *)
(***************************************************************************)
CsvValues == {V_empty, V_7, V_neg_half, V_ab}
CsvHeaders == { <<N_id>>, <<N_id, N_name>> }
CsvRows == UNION { [1..w -> CsvValues] : w \in 0..MaxCsvWidth }
CsvFiles == { <<h>> \o rows : h \in CsvHeaders, rows \in UNION { [1..n -> CsvRows] : n \in 0..MaxCsvRows } }

\* schema = infer_schema_from_csv(csv_path)
InferSchema ==
  /\ stage = "source"
  /\ schema' = infer_schema_from_csv(csv)
  /\ stage' = "schema"
  /\ UNCHANGED <<csv, columns, disk, wres, damage, reader, colRes, colsRes, allRes>>

\* header_names, columns = read_csv_columns(csv_path, schema)
ReadCsvColumns ==
  /\ stage = "schema"
  /\ columns' = read_csv_columns(csv)
  /\ stage' = "columns"
  /\ UNCHANGED <<csv, schema, disk, wres, damage, reader, colRes, colsRes, allRes>>

InitInfer == \E c \in CsvFiles : InitWith(c, <<>>, <<>>, NoFile)

NextInfer ==
  \/ InferSchema
  \/ ReadCsvColumns
  \/ WriteCFile
  \/ Open
  \/ ReadAll

SpecInfer == InitInfer /\ [][NextInfer]_vars

(***************************************************************************)
(* Properties of a written file and of reading it back (Spec).             *)
(***************************************************************************)
Written == wres = "ok" /\ damage.kind = "none"
DistinctNames(sc) == \A i, j \in 1..Len(sc) : i # j => sc[i].name # sc[j].name
NameSet(sc) == {sc[i].name : i \in 1..Len(sc)}
IsNumeric(type) == type \in {T_INT32, T_FLOAT64}

\* the value a source field stands for under a column type
Coerce(type, v) ==
  IF type = T_INT32 THEN IntV(IF v = <<>> THEN 0 ELSE IntOfFloat(FloatOf(v)))
  ELSE IF type = T_FLOAT64
       THEN FloatV(IF v = <<>> THEN [neg |-> FALSE, mant |-> 0, exp |-> 0] ELSE FloatOf(v))
  ELSE StrV(v)

\* read_all returned the source rows, in order, coerced
RowsRoundTrip ==
  /\ allRes.err = ""
  /\ Len(allRes.rows) = Len(columns[1])
  /\ \A r \in 1..Len(allRes.rows) :
       /\ DOMAIN allRes.rows[r] = NameSet(schema)
       /\ \A j \in 1..Len(schema) :
            allRes.rows[r][schema[j].name] = Coerce(schema[j].type, columns[j][r])

\* C1 as stated: for any schema and any table, write_cfile then read_all returns
\* the same rows in the same order after type coercion
C1_RoundTripAnySchema == (Written /\ allRes.done) => RowsRoundTrip

\* C1 amended: the round trip holds for every schema whose column names are
\* pairwise distinct, whenever write_cfile succeeds
C1_RoundTrip == (Written /\ allRes.done /\ DistinctNames(schema)) => RowsRoundTrip

\* a two-column table was read back whose INT32 column holds "-0.5" and ""
C1_Witness ==
  /\ Written /\ allRes.done /\ DistinctNames(schema)
  /\ Len(schema) = 2 /\ Len(columns[1]) = 2
  /\ \E j \in 1..2 : /\ schema[j].type = T_INT32
                     /\ \E r \in 1..2 : columns[j][r] = V_neg_half
                     /\ \E r \in 1..2 : columns[j][r] = V_empty

\* C2: for every column name of the schema, read_column(name) is the column
\* row[name] of read_all(), in row order; read_columns(names) gives for each name
\* what read_column gives (and fails as read_column fails)
C2_SelectiveRead ==
  (Written /\ reader.status = "open" /\ colRes.done) =>
    /\ (allRes.done /\ colRes.name \in NameSet(schema)) =>
         /\ colRes.err = "" /\ allRes.err = ""
         /\ colRes.vals = [r \in 1..Len(allRes.rows) |-> allRes.rows[r][colRes.name]]
    /\ (colsRes.done /\ \E i \in 1..Len(colsRes.names) : colsRes.names[i] = colRes.name) =>
         IF colsRes.err = "" THEN colRes.err = "" /\ colsRes.cols[colRes.name] = colRes.vals
         ELSE colRes.err # "" => colsRes.err = colRes.err

\* a column of a two-row file was read alone, in a list, and through read_all
C2_Witness ==
  /\ Written /\ reader.status = "open" /\ reader.num_rows = 2
  /\ colRes.done /\ colRes.err = "" /\ allRes.done /\ colsRes.done /\ colsRes.err = ""
  /\ Len(reader.columns) = 2 /\ colRes.name = reader.columns[2].name

RoundUp8(n) == ((n + 7) \div 8) * 8
BlockEnd(c) == c.block_offset + c.compressed_size
\* the bytes at 0-based positions from .. to-1 are zero
ZeroBetween(b, from, to) == \A k \in (from + 1)..to : b[k] = 0

\* C3: every block offset is a multiple of 8, the first is the header+directory
\* length rounded up to 8, each later one the previous block's end rounded up to 8,
\* and every padding byte is zero
C3_Alignment ==
  Written =>
    LET b  == disk.bytes
        h  == ParseHeader(b)
        cs == h.columns
        n  == Len(cs)
    IN /\ h.err = ""
       /\ \A i \in 1..n : cs[i].block_offset % 8 = 0
       /\ n > 0 => cs[1].block_offset = RoundUp8(h.end)
       /\ \A i \in 1..(n - 1) : cs[i + 1].block_offset = RoundUp8(BlockEnd(cs[i]))
       /\ ZeroBetween(b, h.end, IF n > 0 THEN cs[1].block_offset ELSE Len(b))
       /\ \A i \in 1..n :
            ZeroBetween(b, BlockEnd(cs[i]), IF i < n THEN cs[i + 1].block_offset ELSE Len(b))

\* a two-block file whose header and first block both needed padding
C3_Witness ==
  /\ Written
  /\ LET h == ParseHeader(disk.bytes)
     IN /\ Len(h.columns) = 2
        /\ h.end % 8 # 0
        /\ BlockEnd(h.columns[1]) % 8 # 0

\* a file whose header+directory length is already a multiple of 8
C3_WitnessAligned == Written /\ ParseHeader(disk.bytes).end % 8 = 0

\* C4: num_columns equals the number of directory entries and of schema-blob
\* columns, every entry's num_values equals num_rows, and read_all returns
\* num_rows rows
C4_Consistency ==
  (Written /\ reader.status # "closed") =>
    /\ reader.status = "open"
    /\ reader.num_columns = Len(reader.columns)
    /\ reader.num_columns = Len(reader.schema)
    /\ \A i \in 1..Len(reader.columns) : reader.columns[i].num_values = reader.num_rows
    /\ allRes.done => (allRes.err = "" /\ Len(allRes.rows) = reader.num_rows)

\* a two-column, two-row file was opened and read_all was called
C4_Witness ==
  /\ Written /\ reader.status = "open" /\ allRes.done
  /\ reader.num_rows = 2 /\ reader.num_columns = 2

\* the file with every byte outside 0-based [from, to) changed
ScribbledOutside(b, from, to) ==
  [k \in 1..Len(b) |-> IF k > from /\ k <= to THEN b[k] ELSE 255 - b[k]]

\* C10: each directory range holds exactly that column's compressed block, lies
\* at or after the padded header end and within the file, the ranges are disjoint
\* and in schema order, and read_column depends on no byte outside its own range
C10_BlockRanges ==
  Written =>
    LET b   == disk.bytes
        h   == ParseHeader(b)
        rd  == OpenReader(b)
        cs  == h.columns
        n   == Len(cs)
        enc == EncodeColumns(schema, columns)
    IN /\ n = Len(enc.comp)
       /\ \A i \in 1..n :
            /\ Slice(b, cs[i].block_offset, BlockEnd(cs[i])) = enc.comp[i]
            /\ cs[i].block_offset >= RoundUp8(h.end)
            /\ BlockEnd(cs[i]) <= Len(b)
            /\ i < n => BlockEnd(cs[i]) <= cs[i + 1].block_offset
       /\ \A name \in NameSet(schema) :
            LET m == cs[FindColumn(cs, name)]
            IN /\ read_column(rd, b, name).err = ""
               /\ read_column(rd, ScribbledOutside(b, m.block_offset, BlockEnd(m)), name)
                  = read_column(rd, b, name)

\* a written file with two blocks, the second one not empty of values
C10_Witness ==
  /\ Written /\ Len(schema) = 2 /\ Len(columns[2]) = 2
  /\ Len(ParseHeader(disk.bytes).columns) = 2

(***************************************************************************)
(* Properties of reading a damaged file (SpecDamage).                      *)
(***************************************************************************)
\* the file as write_cfile left it, and the length of its header and directory
WrittenBytes == write_cfile(schema, columns).bytes
HeaderEnd == ParseHeader(WrittenBytes).end
\* the directory entry read_column(name) uses: the first of that name
MetaOf(rd, name) == rd.columns[FindColumn(rd.columns, name)]

\* C5: after a truncation at or after the end of the header and directory the
\* reader still opens, and every read_column of a schema column whose block span
\* is not wholly in the file fails with TruncatedBlock and returns no values;
\* after a change of the magic bytes to something other than "CFILEv01" (trailing
\* zeros stripped) opening the reader fails with BadMagic
C5_CorruptionDetected ==
  /\ (damage.kind = "truncate" /\ damage.at >= HeaderEnd /\ reader.status # "closed") =>
       /\ reader.status = "open"
       /\ (colRes.done /\ colRes.name \in NameSet(schema)
           /\ BlockEnd(MetaOf(reader, colRes.name)) > Len(disk.bytes)) =>
            (colRes.err = "TruncatedBlock" /\ colRes.vals = <<>>)
  /\ (damage.kind = "magic" /\ RStripZeros(SubSeq(disk.bytes, 1, 8)) # MAGIC
      /\ reader.status # "closed") =>
       reader.status = "BadMagic"

\* a two-block file was cut inside its second block, the first block left whole,
\* and the second column was read
C5_Witness ==
  /\ damage.kind = "truncate" /\ damage.at >= HeaderEnd /\ reader.status = "open"
  /\ Len(reader.columns) = 2
  /\ BlockEnd(reader.columns[1]) <= Len(disk.bytes)
  /\ reader.columns[2].block_offset < Len(disk.bytes)
  /\ BlockEnd(reader.columns[2]) > Len(disk.bytes)
  /\ colRes.done /\ colRes.name = reader.columns[2].name

\* C6: for a file cut to any length shorter than its header and directory,
\* opening the reader raises the TruncatedFile error
C6_HeaderTruncation ==
  (damage.kind = "truncate" /\ damage.at < HeaderEnd /\ reader.status # "closed") =>
    reader.status = "TruncatedFile"

\* C7: when a directory entry's num_values differs from the global num_rows,
\* read_all fails; it never returns rows
C7_MismatchRejected ==
  (reader.status = "open" /\ allRes.done
   /\ \E i \in 1..Len(reader.columns) : reader.columns[i].num_values # reader.num_rows) =>
    allRes.err # ""

(***************************************************************************)
(* Properties of a failed write (SpecAbort).                               *)
(***************************************************************************)
\* a value that build_uncompressed_block cannot encode under a numeric type
Malformed(v) == v # <<>> /\ ~IsFloatLiteral(v)

\* some column that write_cfile encodes has an unknown type name, or a numeric
\* type and a non-empty, non-numeric value
EncodingFails ==
  \E j \in 1..Min(Len(schema), Len(columns)) :
    \/ ~KnownType(schema[j].type)
    \/ IsNumeric(schema[j].type) /\ \E r \in 1..Len(columns[j]) : Malformed(columns[j][r])

\* C8: a write_cfile call in which the encoding of some value fails raises, and
\* leaves the destination as it was: not created, not truncated, not rewritten
C8_WriterAbort ==
  [][(wres = "idle" /\ wres' # "idle" /\ EncodingFails) => (wres' # "ok" /\ disk' = disk)]_vars

\* a write over an earlier file failed on a value of the second column, after the
\* first column was encoded, and the earlier file is still there
C8_Witness ==
  /\ wres \notin {"idle", "ok"} /\ EncodingFails
  /\ disk = OldFile
  /\ Len(schema) = 2 /\ Len(columns) = 2
  /\ \A r \in 1..Len(columns[1]) : ~Malformed(columns[1][r])
  /\ \E r \in 1..Len(columns[2]) : Malformed(columns[2][r])

(***************************************************************************)
(* Properties of schema inference (SpecInfer).                             *)
(***************************************************************************)
\* the sample value of header column j: the first data row's field, "" when the
\* row is too short or there is no data row
SampleValue(j) == IF Len(csv) >= 2 /\ j <= Len(csv[2]) THEN csv[2][j] ELSE <<>>

\* C9: infer_schema_from_csv returns one definition per header column, in header
\* order, typed by that column's sample value (INT32, else FLOAT64, else STRING)
C9_TypeInference ==
  (csv # <<>> /\ stage # "source") =>
    /\ Len(schema) = Len(csv[1])
    /\ \A j \in 1..Min(Len(schema), Len(csv[1])) :
         /\ schema[j].name = csv[1][j]
         /\ schema[j].type = TypeName(infer_type(SampleValue(j)))

====
